---- MODULE Spec2Model ----
(***************************************************************************)
(* Model of sopel/tools/__init__.py:                                       *)
(*   - get_sendable_message (the segmenter), one action per loop iteration *)
(*   - SopelMemory / SopelIdentifierMemory, one action per statement of    *)
(*     __setitem__ / __contains__ / __getitem__, run by several threads    *)
(***************************************************************************)
EXTENDS Integers, Sequences, FiniteSets, TLC

(***************************************************************************)
(* Bounds                                                                  *)
(***************************************************************************)
MaxLen == 4
MaxBytes == 5
NumThreads == 2
MaxCalls == 2

(***************************************************************************)
(* Text: a sequence of code points.  Each code point is named by a string; *)
(* its UTF-8 width is what str.encode('utf-8') produces for it.            *)
(***************************************************************************)
Chars == {"a", " ", "\t", "U+00E9", "U+20AC", "U+1F600"}

Whitespace == {" ", "\t"}

Utf8Width(c) ==
    CASE c = "U+00E9" -> 2
      [] c = "U+20AC" -> 3
      [] c = "U+1F600" -> 4
      [] OTHER -> 1

RECURSIVE Utf8Len(_)
Utf8Len(s) == IF s = << >> THEN 0 ELSE Utf8Width(Head(s)) + Utf8Len(Tail(s))

Texts == UNION {[1..n -> Chars] : n \in 0..MaxLen}

\* Python's normalisation of a slice bound against a string of length n.
PyIndex(i, n) ==
    IF i < 0 THEN (IF n + i < 0 THEN 0 ELSE n + i)
    ELSE IF i > n THEN n ELSE i

\* s[i:]
SliceFrom(s, i) == SubSeq(s, PyIndex(i, Len(s)) + 1, Len(s))

\* s[:i]
SliceTo(s, i) == SubSeq(s, 1, PyIndex(i, Len(s)))

\* s.rfind(c, start, end): highest 0-based index in [start, end) holding c, or -1.
RFind(s, c, start, end) ==
    LET hits == {j \in PyIndex(start, Len(s))..(PyIndex(end, Len(s)) - 1) : s[j + 1] = c}
    IN  IF hits = {} THEN -1 ELSE CHOOSE j \in hits : \A k \in hits : k <= j

\* a return that does not strip the excess
LStripNone(s) == s

\* s.lstrip()
RECURSIVE LStrip(_)
LStrip(s) ==
    IF s # << >> /\ Head(s) \in Whitespace THEN LStrip(Tail(s)) ELSE s

VARIABLES
    arg_text,            \* the text get_sendable_message was called with
    max_length,          \* its max_length argument
    text,                \* local: the candidate
    excess,              \* local: the accumulated excess
    unicode_max_length,  \* local: the working offset
    spc,                 \* position in get_sendable_message
    sendable             \* the returned pair, once returned

splitVars == <<arg_text, max_length, text, excess, unicode_max_length, spc, sendable>>

NoResult == <<"none">>

(***************************************************************************)
(* SopelMemory, SopelMemoryWithDefault, SopelIdentifierMemory              *)
(***************************************************************************)
VARIABLES
    variant,     \* the class of the map instance
    mstate,      \* "new" before __init__, then "ready", or "failed" when __init__ raised
    init_args,   \* the mapping passed to __init__
    data,        \* the dict contents: stored key -> value
    lock,        \* self.lock: TRUE while the threading.Lock is held
    pc,          \* per thread: the statement it is at
    op,          \* per thread: the operation of its current or last call
    arg,         \* per thread: the key its current or last call was given
    key,         \* per thread: the key handed down to the base class
    value,       \* per thread: the value argument of set
    ret,         \* per thread: the outcome of the call (result or exception)
    calls,       \* per thread: number of calls started
    last_set,    \* history: the raw key and value of the latest insert
    factory,     \* SopelMemoryWithDefault: whether a default_factory was given
    entries,     \* the dict's entry slots in insertion order (deleted slots stay)
    it,          \* per thread: its dict iterator (size at creation, position, remaining)
    holder,      \* history: the thread that acquired the lock and has not released it
    made,        \* history: number of default_factory invocations on the instance
    invoked,     \* history, per thread: default_factory invocations of its call
    absent,      \* history, per thread: its key was absent when the call started
    cmp,         \* history: the other instance of the latest comparison, its lock, this lock
    insert_failed \* history: some dict.__setitem__ has raised

instVars == <<variant, mstate, init_args, factory>>

histVars == <<last_set, holder, made, invoked, absent, cmp, insert_failed>>

memVars == <<variant, mstate, init_args, data, lock, pc, op, arg, key, value, ret, calls, last_set,
             factory, entries, it, holder, made, invoked, absent, cmp, insert_failed>>

vars == <<splitVars, memVars>>

Threads == 1..NumThreads

Variants == {"SopelMemory", "SopelMemoryWithDefault", "SopelIdentifierMemory"}

\* Keys: two str spellings of one nickname, an int, a list (unhashable),
\* and the Identifier instances make_identifier produces.  A stored str and
\* an Identifier are kept as different dict keys.
Str(n) == [type |-> "str", name |-> n]

Identifier(n) == [type |-> "Identifier", name |-> n]

RawKeys == {Str("Nick"), Str("nick"), [type |-> "int", name |-> "1"], [type |-> "list", name |-> "[]"]}

IdentifierKeys == {Identifier("nick")}

Values == {"v1", "v2"}

\* dict raises TypeError for a key it cannot hash
Hashable(k) == k.type # "list"

\* Identifier lower-cases a str; it cannot be built from anything else
Lower(n) == IF n = "Nick" THEN "nick" ELSE n

Rejects(k) == k.type \notin {"str", "Identifier"}

Normalize(k) == Identifier(Lower(k.name))

None == [kind |-> "none", v |-> "none"]

Ok(v) == [kind |-> "ok", v |-> v]

Raise(e) == [kind |-> "raise", v |-> e]

Bool(b) == IF b THEN "True" ELSE "False"

EmptyDict == [k \in {} |-> "v1"]

\* a deleted entry slot
Dummy == [type |-> "dummy", name |-> "dummy"]

NoIter == [used |-> 0, pos |-> 0, len |-> 0]

NoThread == 0

\* the values default_factory produces: a new object at every invocation
DefaultValue(n) == <<"d1", "d2", "d3", "d4", "d5">>[n]

\* the instances a map is compared with, and the state of their lock
OtherDicts == {EmptyDict} \cup {[k \in {Str("Nick")} |-> v] : v \in Values}

LockModes == {"free", "held", "shared"}

\* the mappings __init__ is given: nothing, or one entry under any key
InitArgs == {EmptyDict} \cup {[k \in {k0} |-> "v1"] : k0 \in RawKeys \cup IdentifierKeys}

MemIdle ==
    /\ variant = "SopelMemory"
    /\ mstate = "new"
    /\ init_args = EmptyDict
    /\ data = EmptyDict
    /\ lock = FALSE
    /\ pc = [t \in Threads |-> "idle"]
    /\ op = [t \in Threads |-> "none"]
    /\ arg = [t \in Threads |-> Str("Nick")]
    /\ key = [t \in Threads |-> Str("Nick")]
    /\ value = [t \in Threads |-> "v1"]
    /\ ret = [t \in Threads |-> None]
    /\ calls = [t \in Threads |-> 0]
    /\ last_set = << >>
    /\ factory = "none"
    /\ entries = << >>
    /\ it = [t \in Threads |-> NoIter]
    /\ holder = NoThread
    /\ made = 0
    /\ invoked = [t \in Threads |-> 0]
    /\ absent = [t \in Threads |-> FALSE]
    /\ cmp = << >>
    /\ insert_failed = FALSE

SplitInit ==
    /\ MemIdle
    /\ arg_text \in Texts
    /\ max_length \in 0..MaxBytes
    /\ text = arg_text
    /\ excess = << >>
    /\ unicode_max_length = max_length
    /\ spc = "while"
    /\ sendable = NoResult

\* a loop that is also entered when the text exactly fills the budget
LoopCondInclusive(t, m) == Utf8Len(t) >= m

\* a loop condition that counts code points instead of encoded bytes
LoopCondCodePoints(t, m) == Len(t) > m

\* the loop condition of line 268
LoopCond(t, m) == Utf8Len(t) > m

\* a search that takes the first space below the working offset
FirstSpace(t, u) ==
    LET hits == {j \in 0..(PyIndex(u, Len(t)) - 1) : t[j + 1] = " "}
    IN  IF hits = {} THEN -1 ELSE CHOOSE j \in hits : \A k \in hits : j <= k

\* line 269
LastSpace(t, u) == RFind(t, " ", 0, u)

\* lines 272-275: no space found, cut at the working offset
HardCutExcess(t, e, u) == SliceFrom(t, u) \o e

\* a hard cut that lowers the working offset by two code points
HardCutOffsetByTwo(u) == u - 2

\* a hard cut that forgets to lower the working offset
HardCutOffsetKept(u) == u

HardCutOffset(u) == u - 1

HardCut ==
    /\ spc = "while"
    /\ LoopCond(text, max_length)
    /\ LastSpace(text, unicode_max_length) = -1
    /\ excess' = HardCutExcess(text, excess, unicode_max_length)
    /\ text' = SliceTo(text, unicode_max_length)
    /\ unicode_max_length' = HardCutOffset(unicode_max_length)
    /\ UNCHANGED <<arg_text, max_length, spc, sendable>>
    /\ UNCHANGED memVars

\* lines 278-279: cut at the last space found
SpaceCutExcess(t, e, p) == SliceFrom(t, p)

SpaceCut ==
    /\ spc = "while"
    /\ LoopCond(text, max_length)
    /\ LastSpace(text, unicode_max_length) # -1
    /\ excess' = SpaceCutExcess(text, excess, LastSpace(text, unicode_max_length))
    /\ text' = SliceTo(text, LastSpace(text, unicode_max_length))
    /\ UNCHANGED <<arg_text, max_length, unicode_max_length, spc, sendable>>
    /\ UNCHANGED memVars

\* line 281
SplitReturn ==
    /\ spc = "while"
    /\ ~LoopCond(text, max_length)
    /\ sendable' = <<text, LStrip(excess)>>
    /\ spc' = "returned"
    /\ UNCHANGED <<arg_text, max_length, text, excess, unicode_max_length>>
    /\ UNCHANGED memVars

SplitNext == HardCut \/ SpaceCut \/ SplitReturn

SpecSplit == SplitInit /\ [][SplitNext]_vars

\* get_sendable_message is sequential code: an enabled iteration is executed.
FairSpecSplit == SpecSplit /\ WF_vars(SplitNext)

(***************************************************************************)
(* The map classes.  Every statement of __setitem__ / __contains__ is a    *)
(* step of its own, so that threads interleave between statements.         *)
(***************************************************************************)
MemInit ==
    /\ variant \in Variants
    /\ mstate = "new"
    /\ init_args = EmptyDict
    /\ data = EmptyDict
    /\ lock = FALSE
    /\ pc = [t \in Threads |-> "idle"]
    /\ op = [t \in Threads |-> "none"]
    /\ arg = [t \in Threads |-> Str("Nick")]
    /\ key = [t \in Threads |-> Str("Nick")]
    /\ value = [t \in Threads |-> "v1"]
    /\ ret = [t \in Threads |-> None]
    /\ calls = [t \in Threads |-> 0]
    /\ last_set = << >>
    /\ factory = "none"
    /\ entries = << >>
    /\ it = [t \in Threads |-> NoIter]
    /\ holder = NoThread
    /\ made = 0
    /\ invoked = [t \in Threads |-> 0]
    /\ absent = [t \in Threads |-> FALSE]
    /\ cmp = << >>
    /\ insert_failed = FALSE
    /\ arg_text = << >>
    /\ max_length = 0
    /\ text = << >>
    /\ excess = << >>
    /\ unicode_max_length = 0
    /\ spc = "unused"
    /\ sendable = NoResult

\* dict.__init__(self, *args): the entries are stored as given
DictInit(a) == a

\* the entry slots of a dict built from a mapping of at most one entry
InitEntries(a) == IF DOMAIN a = {} THEN << >> ELSE <<CHOOSE k \in DOMAIN a : TRUE>>

\* SopelMemory.__init__ / SopelMemoryWithDefault.__init__ /
\* SopelIdentifierMemory.__init__ (which only calls super().__init__(*args));
\* the first argument of SopelMemoryWithDefault is the default_factory
Construct ==
    /\ mstate = "new"
    /\ \E a \in InitArgs, f \in {"none", "factory"} :
        /\ f = "factory" => variant = "SopelMemoryWithDefault"
        /\ init_args' = a
        /\ factory' = f
        /\ IF \A k \in DOMAIN a : Hashable(k)
           THEN data' = DictInit(a) /\ entries' = InitEntries(a) /\ mstate' = "ready"
           ELSE data' = data /\ entries' = entries /\ mstate' = "failed"
    /\ lock' = FALSE
    /\ UNCHANGED <<variant, pc, op, arg, key, value, ret, calls, it>>
    /\ UNCHANGED histVars
    /\ UNCHANGED splitVars

\* the operations the three classes define or override
Ops == {"set", "contains", "get"}

\* the operations SopelMemory inherits from dict unchanged
InheritedOps == {"del", "iter", "eq"}

\* the operations SopelIdentifierMemory overrides to run make_identifier
Normalizing(o) == variant = "SopelIdentifierMemory" /\ o \in {"set", "contains", "get"}

\* where a call starts: SopelIdentifierMemory first runs make_identifier
FirstPc(o) ==
    IF Normalizing(o) THEN "make_identifier"
    ELSE CASE o = "set" -> "set_acquire"
           [] o = "contains" -> "contains_acquire"
           [] o = "get" -> "get_item"
           [] o = "del" -> "del_item"
           [] o = "iter" -> "iter_start"
           [] o = "eq" -> "eq_compare"

RECURSIVE Sum(_, _)
Sum(f, S) == IF S = {} THEN 0 ELSE LET x == CHOOSE y \in S : TRUE IN f[x] + Sum(f, S \ {x})

\* threads are interchangeable: they are numbered in the order of their first
\* call on the instance
FirstCallsInOrder(t) == \A u \in Threads : u < t => calls[u] > 0

\* a thread calls one of the operations O on the instance; the number of
\* calls made on the instance is capped by MaxCalls
CallOf(t, O) ==
    /\ mstate = "ready"
    /\ pc[t] = "idle"
    /\ Sum(calls, Threads) < MaxCalls
    /\ FirstCallsInOrder(t)
    /\ \E o \in O, k \in RawKeys, v \in Values :
        /\ o # "set" => v = "v1"
        /\ o \in {"iter", "eq"} => k = Str("Nick")
        /\ op' = [op EXCEPT ![t] = o]
        /\ arg' = [arg EXCEPT ![t] = k]
        /\ key' = [key EXCEPT ![t] = k]
        /\ value' = [value EXCEPT ![t] = v]
        /\ pc' = [pc EXCEPT ![t] = FirstPc(o)]
        /\ absent' = [absent EXCEPT ![t] = k \notin DOMAIN data]
    /\ ret' = [ret EXCEPT ![t] = None]
    /\ calls' = [calls EXCEPT ![t] = @ + 1]
    /\ invoked' = [invoked EXCEPT ![t] = 0]
    /\ UNCHANGED <<data, entries, lock, it>>
    /\ UNCHANGED <<last_set, holder, made, cmp, insert_failed>>
    /\ UNCHANGED instVars
    /\ UNCHANGED splitVars

\* a thread calls memory[k] = v, k in memory or memory[k]
Call(t) == CallOf(t, Ops)

\* a thread calls any operation of a plain SopelMemory: the three above,
\* del memory[k], an iteration over memory, or memory == other
CallAny(t) == CallOf(t, Ops \cup InheritedOps)

\* a SopelIdentifierMemory that hands the key down as it was given
MakeIdentifierSkipped(k) == k

\* self.make_identifier(key), lines 542, 545, 548
MakeIdentifier(k) == Normalize(k)

AfterMakeIdentifier(o) ==
    CASE o = "set" -> "set_acquire"
      [] o = "contains" -> "contains_acquire"
      [] o = "get" -> "get_item"

\* a method that catches the exception of make_identifier and carries on
\* with a coerced key
MakeIdentifierErrorSwallowed(k) == FALSE

\* lines 542, 545, 548 do not catch what make_identifier raises
MakeIdentifierRaises(k) == Rejects(k)

\* the argument evaluation of lines 542, 545, 548: the exception of
\* make_identifier leaves the call before anything else happened
CallMakeIdentifier(t) ==
    /\ pc[t] = "make_identifier"
    /\ IF MakeIdentifierRaises(key[t])
       THEN /\ ret' = [ret EXCEPT ![t] = Raise("AttributeError")]
            /\ pc' = [pc EXCEPT ![t] = "idle"]
            /\ key' = key
       ELSE /\ key' = [key EXCEPT ![t] = MakeIdentifier(key[t])]
            /\ pc' = [pc EXCEPT ![t] = AfterMakeIdentifier(op[t])]
            /\ ret' = ret
    /\ UNCHANGED <<data, entries, lock, op, arg, value, calls, it>>
    /\ UNCHANGED histVars
    /\ UNCHANGED instVars
    /\ UNCHANGED splitVars

\* an acquire that does not wait for the lock
CanAcquireAlways(l) == TRUE

\* threading.Lock.acquire() blocks while the lock is held
CanAcquire(l) == ~l

\* an operation that waits for the lock before it reads the dict
WaitsForLock(l) == ~l

\* dict.__getitem__, dict.__delitem__, dict.__iter__ and dict.__eq__ are
\* not overridden with a locking version: nothing is acquired before them
NoAcquire(l) == TRUE

\* a dict store that forgets the other entries
DictSetItemAlone(d, k, v) == [x \in {k} |-> v]

\* dict.__setitem__(self, key, value)
DictSetItem(d, k, v) == [x \in DOMAIN d \cup {k} |-> IF x = k THEN v ELSE d[x]]

\* dict.__setitem__ on the entry slots: a new key takes the next slot.  (No
\* resize happens within the calls the model makes: a dict has room for five
\* entries before its first resize.)
EntriesSetItem(e, d, k) == IF k \in DOMAIN d THEN e ELSE Append(e, k)

\* dict.__contains__(self, key)
DictContains(d, k) == k \in DOMAIN d

\* the key set(a, v) stores under
StoredKey(a) == IF variant = "SopelIdentifierMemory" THEN Normalize(a) ELSE a

\* line 429 / 468
SetAcquire(t) ==
    /\ pc[t] = "set_acquire"
    /\ CanAcquire(lock)
    /\ lock' = TRUE
    /\ holder' = t
    /\ pc' = [pc EXCEPT ![t] = "set_insert"]
    /\ UNCHANGED <<data, entries, op, arg, key, value, ret, calls, it>>
    /\ UNCHANGED <<last_set, made, invoked, absent, cmp, insert_failed>>
    /\ UNCHANGED instVars
    /\ UNCHANGED splitVars

\* line 430 / 469: a TypeError leaves __setitem__ here, before the release
SetInsert(t) ==
    /\ pc[t] = "set_insert"
    /\ IF Hashable(key[t])
       THEN /\ data' = DictSetItem(data, key[t], value[t])
            /\ entries' = EntriesSetItem(entries, data, key[t])
            /\ last_set' = <<arg[t], value[t]>>
            /\ pc' = [pc EXCEPT ![t] = "set_release"]
            /\ ret' = ret
            /\ insert_failed' = insert_failed
       ELSE /\ ret' = [ret EXCEPT ![t] = Raise("TypeError")]
            /\ pc' = [pc EXCEPT ![t] = "idle"]
            /\ insert_failed' = TRUE
            /\ UNCHANGED <<data, entries, last_set>>
    /\ UNCHANGED <<lock, op, arg, key, value, calls, it>>
    /\ UNCHANGED <<holder, made, invoked, absent, cmp>>
    /\ UNCHANGED instVars
    /\ UNCHANGED splitVars

\* lines 431-432 / 470-471; when __setitem__ was called by
\* defaultdict.__missing__, the get returns the default it stored
SetRelease(t) ==
    /\ pc[t] = "set_release"
    /\ lock' = FALSE
    /\ holder' = NoThread
    /\ ret' = [ret EXCEPT ![t] = IF op[t] = "get" THEN Ok(value[t]) ELSE Ok("None")]
    /\ pc' = [pc EXCEPT ![t] = "idle"]
    /\ UNCHANGED <<data, entries, op, arg, key, value, calls, it>>
    /\ UNCHANGED <<last_set, made, invoked, absent, cmp, insert_failed>>
    /\ UNCHANGED instVars
    /\ UNCHANGED splitVars

\* line 439 / 478
ContainsAcquire(t) ==
    /\ pc[t] = "contains_acquire"
    /\ CanAcquire(lock)
    /\ lock' = TRUE
    /\ holder' = t
    /\ pc' = [pc EXCEPT ![t] = "contains_check"]
    /\ UNCHANGED <<data, entries, op, arg, key, value, ret, calls, it>>
    /\ UNCHANGED <<last_set, made, invoked, absent, cmp, insert_failed>>
    /\ UNCHANGED instVars
    /\ UNCHANGED splitVars

\* line 440 / 479: result is kept in ret until the return
ContainsCheck(t) ==
    /\ pc[t] = "contains_check"
    /\ IF Hashable(key[t])
       THEN /\ ret' = [ret EXCEPT ![t] = Ok(Bool(DictContains(data, key[t])))]
            /\ pc' = [pc EXCEPT ![t] = "contains_release"]
       ELSE /\ ret' = [ret EXCEPT ![t] = Raise("TypeError")]
            /\ pc' = [pc EXCEPT ![t] = "idle"]
    /\ UNCHANGED <<data, entries, lock, op, arg, key, value, calls, it>>
    /\ UNCHANGED histVars
    /\ UNCHANGED instVars
    /\ UNCHANGED splitVars

\* lines 441-442 / 480-481
ContainsRelease(t) ==
    /\ pc[t] = "contains_release"
    /\ lock' = FALSE
    /\ holder' = NoThread
    /\ pc' = [pc EXCEPT ![t] = "idle"]
    /\ UNCHANGED <<data, entries, op, arg, key, value, ret, calls, it>>
    /\ UNCHANGED <<last_set, made, invoked, absent, cmp, insert_failed>>
    /\ UNCHANGED instVars
    /\ UNCHANGED splitVars

\* dict.__getitem__(self, key): not overridden by SopelMemory, no lock
DictGetItem(d, k) ==
    IF ~Hashable(k) THEN Raise("TypeError")
    ELSE IF k \in DOMAIN d THEN Ok(d[k])
    ELSE Raise("KeyError")

\* a lookup that asks the default_factory whether or not the key is there
NeedsDefaultAlways(d, k) == Hashable(k)

\* defaultdict.__getitem__ calls __missing__ for a key that is not there
NeedsDefault(d, k) == Hashable(k) /\ k \notin DOMAIN d

\* memory[key]; a SopelMemoryWithDefault with a default_factory goes on to
\* __missing__ when the key is absent
GetItem(t) ==
    /\ pc[t] = "get_item"
    /\ NoAcquire(lock)
    /\ IF variant = "SopelMemoryWithDefault" /\ factory = "factory" /\ NeedsDefault(data, key[t])
       THEN /\ pc' = [pc EXCEPT ![t] = "missing_factory"]
            /\ ret' = ret
       ELSE /\ ret' = [ret EXCEPT ![t] = DictGetItem(data, key[t])]
            /\ pc' = [pc EXCEPT ![t] = "idle"]
    /\ UNCHANGED <<data, entries, lock, op, arg, key, value, calls, it>>
    /\ UNCHANGED histVars
    /\ UNCHANGED instVars
    /\ UNCHANGED splitVars

\* defaultdict.__missing__: value = self.default_factory(), then
\* self[key] = value through the __setitem__ of lines 463-471
MissingFactory(t) ==
    /\ pc[t] = "missing_factory"
    /\ made' = made + 1
    /\ invoked' = [invoked EXCEPT ![t] = @ + 1]
    /\ value' = [value EXCEPT ![t] = DefaultValue(made + 1)]
    /\ pc' = [pc EXCEPT ![t] = "set_acquire"]
    /\ UNCHANGED <<data, entries, lock, op, arg, key, ret, calls, it>>
    /\ UNCHANGED <<last_set, holder, absent, cmp, insert_failed>>
    /\ UNCHANGED instVars
    /\ UNCHANGED splitVars

\* dict.__delitem__ on the contents and on the entry slots
DictDelItem(d, k) == [x \in DOMAIN d \ {k} |-> d[x]]

EntriesDelItem(e, k) == [i \in 1..Len(e) |-> IF e[i] = k THEN Dummy ELSE e[i]]

\* del memory[key]: dict.__delitem__, not overridden by any of the classes
\* (SopelIdentifierMemory does not run make_identifier here), no lock
DelItem(t) ==
    /\ pc[t] = "del_item"
    /\ NoAcquire(lock)
    /\ IF Hashable(key[t]) /\ key[t] \in DOMAIN data
       THEN /\ data' = DictDelItem(data, key[t])
            /\ entries' = EntriesDelItem(entries, key[t])
            /\ ret' = [ret EXCEPT ![t] = Ok("None")]
            /\ last_set' = IF last_set # << >> /\ StoredKey(last_set[1]) = key[t]
                           THEN << >> ELSE last_set
       ELSE /\ ret' = [ret EXCEPT ![t] =
                        IF Hashable(key[t]) THEN Raise("KeyError") ELSE Raise("TypeError")]
            /\ UNCHANGED <<data, entries, last_set>>
    /\ pc' = [pc EXCEPT ![t] = "idle"]
    /\ UNCHANGED <<lock, op, arg, key, value, calls, it>>
    /\ UNCHANGED <<holder, made, invoked, absent, cmp, insert_failed>>
    /\ UNCHANGED instVars
    /\ UNCHANGED splitVars

\* iter(memory): dict.__iter__, no lock; the iterator remembers the size
IterStart(t) ==
    /\ pc[t] = "iter_start"
    /\ NoAcquire(lock)
    /\ it' = [it EXCEPT ![t] = [used |-> Cardinality(DOMAIN data), pos |-> 0,
                                len |-> Cardinality(DOMAIN data)]]
    /\ pc' = [pc EXCEPT ![t] = "iter_next"]
    /\ UNCHANGED <<data, entries, lock, op, arg, key, value, ret, calls>>
    /\ UNCHANGED histVars
    /\ UNCHANGED instVars
    /\ UNCHANGED splitVars

\* the slots after position p that hold an entry
LiveSlots(e, p) == {i \in (p + 1)..Len(e) : e[i] # Dummy}

\* next(iterator): RuntimeError when the dict changed size since iter(), or
\* when an entry is found after all expected ones were delivered; the for
\* loop ends normally when no entry is left
IterNext(t) ==
    /\ pc[t] = "iter_next"
    /\ NoAcquire(lock)
    /\ IF it[t].used # Cardinality(DOMAIN data)
       THEN /\ ret' = [ret EXCEPT ![t] = Raise("RuntimeError")]
            /\ pc' = [pc EXCEPT ![t] = "idle"]
            /\ it' = [it EXCEPT ![t] = NoIter]
       ELSE IF LiveSlots(entries, it[t].pos) = {}
       THEN /\ ret' = [ret EXCEPT ![t] = Ok("None")]
            /\ pc' = [pc EXCEPT ![t] = "idle"]
            /\ it' = [it EXCEPT ![t] = NoIter]
       ELSE IF it[t].len = 0
       THEN /\ ret' = [ret EXCEPT ![t] = Raise("RuntimeError")]
            /\ pc' = [pc EXCEPT ![t] = "idle"]
            /\ it' = [it EXCEPT ![t] = NoIter]
       ELSE /\ it' = [it EXCEPT ![t] =
                        [used |-> @.used,
                         pos |-> CHOOSE i \in LiveSlots(entries, @.pos) :
                                     \A j \in LiveSlots(entries, @.pos) : i <= j,
                         len |-> @.len - 1]]
            /\ UNCHANGED <<ret, pc>>
    /\ UNCHANGED <<data, entries, lock, op, arg, key, value, calls>>
    /\ UNCHANGED histVars
    /\ UNCHANGED instVars
    /\ UNCHANGED splitVars

\* a comparison that also looks at the lock attribute
MemoryEqWithLock(d1, l1, d2, l2) == d1 = d2 /\ l1 = l2

\* lines 446-448: __eq__ = dict.__eq__ compares the contents only
MemoryEq(d1, l1, d2, l2) == d1 = d2

\* the lock state of the other instance; a shared lock is this instance's
OtherLock(m) == IF m = "shared" THEN lock ELSE m = "held"

\* memory == other, no lock
EqCompare(t) ==
    /\ pc[t] = "eq_compare"
    /\ NoAcquire(lock)
    /\ \E o \in OtherDicts, m \in LockModes :
        /\ cmp' = <<o, m, lock>>
        /\ ret' = [ret EXCEPT ![t] = Ok(Bool(MemoryEq(data, lock, o, OtherLock(m))))]
    /\ pc' = [pc EXCEPT ![t] = "idle"]
    /\ UNCHANGED <<data, entries, lock, op, arg, key, value, calls, it>>
    /\ UNCHANGED <<last_set, holder, made, invoked, absent, insert_failed>>
    /\ UNCHANGED instVars
    /\ UNCHANGED splitVars

Next ==
    \/ Construct
    \/ \E t \in Threads : Call(t)
    \/ \E t \in Threads : CallMakeIdentifier(t)
    \/ \E t \in Threads : SetAcquire(t)
    \/ \E t \in Threads : SetInsert(t)
    \/ \E t \in Threads : SetRelease(t)
    \/ \E t \in Threads : ContainsAcquire(t)
    \/ \E t \in Threads : ContainsCheck(t)
    \/ \E t \in Threads : ContainsRelease(t)
    \/ \E t \in Threads : GetItem(t)
    \/ \E t \in Threads : MissingFactory(t)

\* the three classes under set, contains and get
Spec == MemInit /\ [][Next]_vars

MemInitPlain == MemInit /\ variant = "SopelMemory"

NextPlain ==
    \/ Construct
    \/ \E t \in Threads : CallAny(t)
    \/ \E t \in Threads : SetAcquire(t)
    \/ \E t \in Threads : SetInsert(t)
    \/ \E t \in Threads : SetRelease(t)
    \/ \E t \in Threads : ContainsAcquire(t)
    \/ \E t \in Threads : ContainsCheck(t)
    \/ \E t \in Threads : ContainsRelease(t)
    \/ \E t \in Threads : GetItem(t)
    \/ \E t \in Threads : DelItem(t)
    \/ \E t \in Threads : IterStart(t)
    \/ \E t \in Threads : IterNext(t)
    \/ \E t \in Threads : EqCompare(t)

\* a plain SopelMemory under all its operations, the inherited ones included
SpecPlain == MemInitPlain /\ [][NextPlain]_vars

(***************************************************************************)
(* Properties of the map classes                                           *)
(***************************************************************************)
InsideLock(t) == pc[t] \in {"set_insert", "set_release", "contains_check", "contains_release"}

\* C2: set releases the lock on every exit path: on the step in which the
\* underlying insert fails and the exception reaches the caller, the lock
\* is free.
SetReleasesLockOnFailure ==
    [][\A t \in Threads :
        (pc[t] = "set_insert" /\ pc'[t] = "idle" /\ ret'[t].kind = "raise")
            => lock' = FALSE]_vars

\* the key is one the map can store under
Accepted(k) == Hashable(k) /\ (variant = "SopelIdentifierMemory" => ~Rejects(k))

EachThreadSetOnce ==
    /\ mstate = "ready"
    /\ \A t \in Threads :
        calls[t] = 1 /\ op[t] = "set" /\ pc[t] = "idle" /\ Accepted(arg[t])
    /\ \A t, u \in Threads : t # u => key[t] # key[u]

\* C3: when every thread has called set once, with pairwise distinct keys,
\* and all have returned, the map holds every thread's entry with its value
\* and the lock is free.
ConcurrentSetsAllStored ==
    EachThreadSetOnce =>
        /\ \A t \in Threads : key[t] \in DOMAIN data /\ data[key[t]] = value[t]
        /\ lock = FALSE

\* all threads have returned from their one set, on a map that was seeded
ConcurrentSetsAllStoredWitness ==
    /\ EachThreadSetOnce
    /\ Cardinality(DOMAIN data) > NumThreads
    /\ \E t \in Threads : value[t] = "v2"

\* C4: at most one thread is between the acquire and the release of a set
\* or contains call.
MutualExclusion == Cardinality({t \in Threads : InsideLock(t)}) <= 1

\* one thread is inside set while another waits at the acquire of contains
MutualExclusionWitness ==
    \E t, u \in Threads :
        /\ pc[t] = "set_insert"
        /\ pc[u] = "contains_acquire"
        /\ lock

\* C5: every key stored in a SopelIdentifierMemory is a value produced by
\* make_identifier.
StoredKeysAreIdentifiers ==
    (variant = "SopelIdentifierMemory" /\ mstate = "ready") =>
        \A k \in DOMAIN data :
            \E r \in RawKeys \cup IdentifierKeys : ~Rejects(r) /\ k = Normalize(r)

SameIdentity(a, b) == ~Rejects(a) /\ ~Rejects(b) /\ Normalize(a) = Normalize(b)

\* the latest insert was set(a, v) with a of the same identity as b
SetBefore(b) == last_set # << >> /\ SameIdentity(last_set[1], b)

\* C6: in a SopelIdentifierMemory, once set(a, v) has stored its entry, a
\* get(b) with normalize(b) = normalize(a) returns v, a contains(b) finds
\* it, and a set(b, w) overwrites that entry without adding one.
SameIdentitySameEntry ==
    [][variant = "SopelIdentifierMemory" =>
        \A t \in Threads :
            /\ (pc[t] = "get_item" /\ pc'[t] = "idle" /\ SetBefore(arg[t]))
                  => ret'[t] = Ok(last_set[2])
            /\ (pc[t] = "contains_check" /\ pc'[t] # pc[t] /\ SetBefore(arg[t]))
                  => ret'[t] = Ok("True")
            /\ (pc[t] = "set_insert" /\ pc'[t] # pc[t] /\ SetBefore(arg[t]))
                  => /\ Cardinality(DOMAIN data') = Cardinality(DOMAIN data)
                     /\ data'[Normalize(arg[t])] = value[t]]_vars

\* set("Nick" or "nick", v2) was followed by a get under the other spelling
SameIdentitySameEntryWitness ==
    /\ variant = "SopelIdentifierMemory"
    /\ last_set # << >>
    /\ \E t \in Threads :
        /\ op[t] = "get"
        /\ pc[t] = "idle"
        /\ arg[t] # last_set[1]
        /\ SameIdentity(last_set[1], arg[t])
        /\ ret[t] = Ok("v2")

\* C7: constructing a SopelIdentifierMemory from an entry whose key
\* make_identifier rejects fails, and no map holds that key.
RejectedInitKeyFailsConstruction ==
    (/\ variant = "SopelIdentifierMemory"
     /\ mstate # "new"
     /\ \E k \in DOMAIN init_args : Rejects(k))
        => (mstate = "failed" /\ \A k \in DOMAIN data : ~Rejects(k))

RejectedCall(t) ==
    variant = "SopelIdentifierMemory" /\ op[t] \in {"get", "set", "contains"} /\ Rejects(arg[t])

\* C8: a get, set or contains of a SopelIdentifierMemory with a key that
\* make_identifier rejects returns an exception to the caller, and no step
\* of that call changes the map.
RejectedKeyRaises ==
    /\ [](\A t \in Threads : (RejectedCall(t) /\ pc[t] = "idle") => ret[t].kind = "raise")
    /\ [][\A t \in Threads :
            (RejectedCall(t) /\ pc[t] # "idle" /\ pc'[t] # pc[t])
                => (data' = data /\ lock' = lock)]_vars

\* a set with a rejected key has returned its exception; the map is not empty
RejectedKeyRaisesWitness ==
    /\ variant = "SopelIdentifierMemory"
    /\ data # EmptyDict
    /\ \E t \in Threads :
        /\ op[t] = "set"
        /\ Rejects(arg[t])
        /\ pc[t] = "idle"
        /\ ret[t] = Raise("AttributeError")

WithLock == variant # "SopelMemoryWithDefault"

\* C11: get, deletion and iteration never acquire the lock: while the lock
\* is held, the pending get, deletion or iteration step of a thread is
\* enabled and leaves the lock as it is.
UnlockedOpsNeverWait ==
    (WithLock /\ lock) =>
        \A t \in Threads :
            /\ pc[t] = "get_item" => ENABLED (GetItem(t) /\ lock' = lock)
            /\ pc[t] = "del_item" => ENABLED (DelItem(t) /\ lock' = lock)
            /\ pc[t] = "iter_start" => ENABLED (IterStart(t) /\ lock' = lock)
            /\ pc[t] = "iter_next" => ENABLED (IterNext(t) /\ lock' = lock)

\* one thread is inside set, holding the lock, while another is about to
\* read, a third operation being a deletion or an iteration step
UnlockedOpsNeverWaitWitness ==
    /\ WithLock
    /\ lock
    /\ \E t, u \in Threads :
        /\ pc[u] = "set_insert"
        /\ pc[t] \in {"get_item", "del_item", "iter_next"}
        /\ key[t] \in DOMAIN data

\* C12: in a SopelMemory, no set that adds a key takes effect while an
\* iteration of another thread is in progress.
NoInsertDuringIteration ==
    [][\A t, u \in Threads :
        (/\ variant = "SopelMemory"
         /\ pc[t] = "iter_next"
         /\ op[u] = "set"
         /\ pc[u] = "set_insert"
         /\ pc'[u] = "set_release")
            => DOMAIN data' = DOMAIN data]_vars

OnlyThread(t) == \A u \in Threads \ {t} : calls[u] = 0

WithFactory == variant = "SopelMemoryWithDefault" /\ factory = "factory"

\* C13: in a SopelMemoryWithDefault used by one thread, a get of an absent
\* key invokes the default_factory once, stores its value under the key and
\* returns it; a get of a present key returns the stored value without
\* invoking the factory, a contains of it is true, and neither changes the
\* map.
DefaultOnRead ==
    /\ [](\A t \in Threads :
            (WithFactory /\ OnlyThread(t) /\ pc[t] = "idle" /\ Hashable(arg[t])) =>
                /\ op[t] = "get" =>
                    /\ arg[t] \in DOMAIN data
                    /\ ret[t] = Ok(data[arg[t]])
                    /\ invoked[t] = (IF absent[t] THEN 1 ELSE 0)
                    /\ absent[t] => ret[t] = Ok(DefaultValue(made))
                /\ (op[t] = "contains" /\ ~absent[t]) => ret[t] = Ok("True"))
    /\ [][\A t \in Threads :
            (WithFactory /\ OnlyThread(t) /\ op[t] \in {"get", "contains"} /\ ~absent[t])
                => data' = data]_vars

\* the one thread has read an absent key and then read it again: one
\* invocation in all, and the second get returned the stored default
DefaultOnReadWitness ==
    /\ WithFactory
    /\ \E t \in Threads :
        /\ OnlyThread(t)
        /\ calls[t] = 2
        /\ op[t] = "get"
        /\ pc[t] = "idle"
        /\ ~absent[t]
        /\ init_args = EmptyDict
        /\ made = 1
        /\ invoked[t] = 0
        /\ ret[t] = Ok("d1")

\* C16: a comparison answers True exactly when the contents of the two
\* instances are equal, whatever the state of either lock.
EqualityIgnoresLock ==
    [][\A t \in Threads :
        (pc[t] = "eq_compare" /\ pc'[t] = "idle")
            => (ret'[t] = Ok(Bool(data = cmp'[1])) /\ ret'[t].v \in {"True", "False"})]_vars

\* a map was found equal to an instance of the same contents whose lock was
\* free while its own lock was held
EqualityIgnoresLockWitness ==
    /\ cmp # << >>
    /\ cmp[1] # EmptyDict
    /\ cmp[2] = "free"
    /\ cmp[3] = TRUE
    /\ \E t \in Threads : op[t] = "eq" /\ pc[t] = "idle" /\ ret[t] = Ok("True")

\* C17: no thread runs make_identifier or the default_factory while it
\* holds the lock.
UserCodeOutsideLock ==
    \A t \in Threads : pc[t] \in {"make_identifier", "missing_factory"} => holder # t

\* C20 (the safety part): as long as no underlying insert has failed, no
\* thread waits at an acquire for a lock that nobody is going to release,
\* and none waits for a lock it holds itself.
NoDeadlockWithoutFailedInsert ==
    ~insert_failed =>
        \A t \in Threads :
            pc[t] \in {"set_acquire", "contains_acquire"} =>
                /\ lock => \E u \in Threads : InsideLock(u)
                /\ holder # t

\* every call made on the instance so far is the first call of its thread,
\* and none of them is a set
NoSetCalled == \A w \in Threads : calls[w] <= 1 /\ op[w] # "set"

\* both threads have read the key k, each starting while k was missing, and
\* both reads have returned
BothReadMissing(t, u, k) ==
    /\ t # u
    /\ op[t] = "get" /\ op[u] = "get"
    /\ arg[t] = k /\ arg[u] = k
    /\ absent[t] /\ absent[u]
    /\ pc[t] = "idle" /\ pc[u] = "idle"

\* C21: in a SopelMemoryWithDefault, when two threads read the same missing
\* key concurrently and no thread calls set, both reads return the same
\* value and that value is the one stored under the key afterwards.
ConcurrentDefaultsAgree ==
    \A t, u \in Threads, k \in RawKeys :
        (WithFactory /\ Hashable(k) /\ NoSetCalled /\ BothReadMissing(t, u, k)) =>
            /\ ret[t] = ret[u]
            /\ k \in DOMAIN data
            /\ ret[t] = Ok(data[k])

(***************************************************************************)
(* Properties of get_sendable_message                                      *)
(***************************************************************************)
IsWhitespaceRun(s, i, j) == \A k \in (i + 1)..j : s[k] \in Whitespace

\* C1: the returned pair reconstructs the input: text = sendable + w + excess
\* for some (possibly empty) run w of whitespace, so that no non-whitespace
\* code point is dropped, duplicated or reordered.
SplitKeepsEveryCodePoint ==
    spc = "returned" =>
        \E i \in 0..Len(arg_text) : \E j \in i..Len(arg_text) :
            /\ SubSeq(arg_text, 1, i) = sendable[1]
            /\ IsWhitespaceRun(arg_text, i, j)
            /\ SubSeq(arg_text, j + 1, Len(arg_text)) = sendable[2]

\* C9: the returned sendable never encodes to more than max_length bytes.
SendableWithinBudget ==
    spc = "returned" => Utf8Len(sendable[1]) <= max_length

\* a call with max_length >= 4 on multi-byte text that was too long and came
\* back with a non-empty sendable
SendableWithinBudgetWitness ==
    /\ spc = "returned"
    /\ max_length >= 4
    /\ Utf8Len(arg_text) > max_length
    /\ Utf8Len(arg_text) > Len(arg_text)
    /\ sendable[1] # << >>
    /\ Len(sendable[1]) < Len(arg_text)

\* C10: every call returns, also when max_length is smaller than the
\* encoding of a single code point of the text.
SplitTerminates == <>(spc = "returned")

\* a call whose first code point alone exceeds max_length has returned, after
\* hard cuts lowered the working offset
SplitTerminatesWitness ==
    /\ spc = "returned"
    /\ arg_text # << >>
    /\ Utf8Width(arg_text[1]) > max_length
    /\ unicode_max_length < max_length

\* C14: for max_length >= 4, a call on a text that encodes to more than
\* max_length bytes returns an excess strictly shorter than the text, so a
\* pipeline that calls again on the excess reaches the empty excess.
ExcessShrinks ==
    (spc = "returned" /\ max_length >= 4 /\ Utf8Len(arg_text) > max_length)
        => Len(sendable[2]) < Len(arg_text)

\* a call with max_length >= 4 that sent nothing (the text starts with the
\* space it was cut at) and still returned a shorter, non-empty excess
ExcessShrinksWitness ==
    /\ spc = "returned"
    /\ max_length >= 4
    /\ Utf8Len(arg_text) > max_length
    /\ sendable[1] = << >>
    /\ sendable[2] # << >>

\* C15: a text that encodes to at most max_length bytes is returned as
\* (text, '') unchanged, leading and trailing whitespace included.
ShortTextUnchanged ==
    (spc = "returned" /\ Utf8Len(arg_text) <= max_length)
        => sendable = <<arg_text, << >> >>

\* a short text that starts and ends with whitespace and exactly fills the
\* budget has been returned
ShortTextUnchangedWitness ==
    /\ spc = "returned"
    /\ Len(arg_text) >= 3
    /\ Utf8Len(arg_text) = max_length
    /\ arg_text[1] \in Whitespace
    /\ arg_text[Len(arg_text)] \in Whitespace
    /\ sendable[1] = arg_text

SingleByte(s) == \A i \in 1..Len(s) : Utf8Width(s[i]) = 1

\* 0-based indexes below max_length that hold a space
SpacesBelow(s, m) == {i \in 0..(Len(s) - 1) : i < m /\ s[i + 1] = " "}

\* C18: for single-byte text longer than max_length with a space at an
\* index below max_length, sendable is text[0..p) for the largest such
\* index p, and excess is text[p..] without its leading whitespace.
CutAtLastSpace ==
    (/\ spc = "returned"
     /\ SingleByte(arg_text)
     /\ Len(arg_text) > max_length
     /\ SpacesBelow(arg_text, max_length) # {})
        => LET p == CHOOSE i \in SpacesBelow(arg_text, max_length) :
                        \A j \in SpacesBelow(arg_text, max_length) : j <= i
               rest == SubSeq(arg_text, p + 1, Len(arg_text))
               n == CHOOSE k \in 0..Len(rest) :
                        /\ \A i \in 1..k : rest[i] \in Whitespace
                        /\ k < Len(rest) => rest[k + 1] \notin Whitespace
           IN  /\ sendable[1] = SubSeq(arg_text, 1, p)
               /\ sendable[2] = SubSeq(rest, n + 1, Len(rest))

\* a text with two spaces below max_length was cut at the second one
CutAtLastSpaceWitness ==
    /\ spc = "returned"
    /\ SingleByte(arg_text)
    /\ Len(arg_text) > max_length
    /\ Cardinality(SpacesBelow(arg_text, max_length)) >= 2
    /\ sendable[1] # << >>
    /\ sendable[2] # << >>

NoWhitespace(s) == \A i \in 1..Len(s) : s[i] \notin Whitespace

\* C19: for text without whitespace that encodes to more than max_length
\* bytes, sendable is the longest prefix of whole code points that fits,
\* excess is exactly the rest, and every hard cut lowers the working offset
\* by one.
HardCutLongestPrefix ==
    /\ []((spc = "returned" /\ NoWhitespace(arg_text) /\ Utf8Len(arg_text) > max_length)
            => /\ sendable[1] \o sendable[2] = arg_text
               /\ Utf8Len(sendable[1]) <= max_length
               /\ Utf8Len(SubSeq(arg_text, 1, Len(sendable[1]) + 1)) > max_length)
    /\ [][(NoWhitespace(arg_text) /\ spc' = "while")
            => unicode_max_length' = unicode_max_length - 1]_vars

\* a multi-byte text without whitespace came back after several hard cuts
\* with a non-empty sendable
HardCutLongestPrefixWitness ==
    /\ spc = "returned"
    /\ NoWhitespace(arg_text)
    /\ Utf8Len(arg_text) > Len(arg_text)
    /\ Utf8Len(arg_text) > max_length
    /\ unicode_max_length < max_length - 1
    /\ sendable[1] # << >>

====
